---- MODULE Spec2Model ----
(***************************************************************************)
(* Borrowing-transaction lifecycle of the library server: the books,       *)
(* members and borrowing_transactions collections, and the request         *)
(* handlers of routes/borrowing.js, routes/books.js and routes/members.js  *)
(* in their two store variants (SQLite callbacks, Mongoose async/await).   *)
(*                                                                         *)
(* Every store call of a handler (db.get / db.run, or an awaited Mongoose  *)
(* call) is one atomic step; between two steps of one request the steps of *)
(* other requests may run.  A request's arrival and validation are folded  *)
(* into its first store call, its response into its last.                  *)
(*                                                                         *)
(* Time is counted in ticks of half a day; money in cents.  Columns that   *)
(* no handler reads back (titles, names, notes, borrow_date, timestamps)   *)
(* are left out.                                                           *)
(***************************************************************************)
EXTENDS Integers, Sequences, FiniteSets, TLC

VARIABLES books, members, loans, now, reqs, mode, variant

vars == <<books, members, loans, now, reqs, mode, variant>>
store == <<books, members, loans>>

----------------------------------------------------------------------------
(* Bounds of the exploration *)

NumSlots == 2
MaxLoans == 2
MaxTime == 2
MaxCreated == 1
MaxDate == 7

(* Program constants *)

TicksPerDay == 2
FinePerDay == 50
DefaultMaxBooks == 5
MinMaxBooks == 1
MaxMaxBooks == 20

NoDate == -1
Null == -1

Slots == 1..NumSlots

----------------------------------------------------------------------------
(* Records of the three collections *)

Book(total, available) ==
  [exists |-> TRUE, total_copies |-> total, available_copies |-> available]

Member(status, max) ==
  [exists |-> TRUE, membership_status |-> status, max_books |-> max]

Loan(b, m, due, st) ==
  [book_id |-> b, member_id |-> m, due_date |-> due, return_date |-> NoDate,
   status |-> st, fine_amount |-> 0]

sampleBooks ==
  << Book(3, 2), Book(2, 1), Book(4, 4), Book(2, 2), Book(3, 3) >>

sampleMembers ==
  << Member("active", DefaultMaxBooks), Member("active", DefaultMaxBooks),
     Member("active", DefaultMaxBooks) >>

BookExists(b) == b \in 1..Len(books) /\ books[b].exists
MemberExists(m) == m \in 1..Len(members) /\ members[m].exists
LoanExists(i) == i \in 1..Len(loans)

(* COUNT(bt.id) ... AND bt.status = 'borrowed' / countDocuments({member_id, status: 'borrowed'}) *)
active_borrowings(m) ==
  Cardinality({i \in 1..Len(loans) :
                 loans[i].member_id = m /\ loans[i].status = "borrowed"})

(* SELECT COUNT ... WHERE book_id = ? AND status = "borrowed" *)
BookActiveCount(b) ==
  Cardinality({i \in 1..Len(loans) :
                 loans[i].book_id = b /\ loans[i].status = "borrowed"})

(* member.active_borrowings >= member.max_books; a NULL max_books compares *)
(* as 0 in JavaScript, so the limit is then always reached.               *)
AtLimit(active, max) == IF max = Null THEN active >= 0 ELSE active >= max

----------------------------------------------------------------------------
(* Requests in flight: one record per handler invocation *)

NoFine == [kind |-> "absent", val |-> 0]
NoSnapshot == [books |-> << >>, members |-> << >>, loans |-> << >>, now |-> 0]

(* The arguments and locals of a handler, its response (res, error, and    *)
(* for a return the fine_amount of the body), and three values kept for    *)
(* the record only: pre, the collections and the time as the request found *)
(* them; again,                                                            *)
(* whether a return repeats the return just answered 200 for the same      *)
(* loan; before, the available_copies of the loan's book when the first of *)
(* those returns arrived.                                                  *)
Idle ==
  [op |-> "none", pc |-> "idle",
   book_id |-> 0, member_id |-> 0, id |-> 0,
   date |-> NoDate, fine_amount |-> NoFine,
   total_copies |-> 0, max_books |-> 0, membership_status |-> "none",
   book |-> [total_copies |-> 0, available_copies |-> 0],
   member |-> [max_books |-> 0],
   transaction |-> [book_id |-> 0, due_date |-> NoDate],
   calculatedFine |-> 0, lastID |-> 0, booksWithFines |-> {},
   res |-> 0, error |-> "none",
   pre |-> NoSnapshot, again |-> FALSE, before |-> 0]

InFlight(s) == reqs[s].pc \notin {"idle", "done"}

(* Whether the requests of several clients are served together *)
Interleaved == mode \in {"concurrent", "books", "edit", "removal"}

(* A request arrives in the lowest free slot; when requests are served one *)
(* at a time it arrives only when no other request is in flight.           *)
CanStart(s) ==
  /\ ~InFlight(s)
  /\ \A t \in Slots : t < s => InFlight(t)
  /\ ~Interleaved => \A t \in Slots : ~InFlight(t)

Snapshot ==
  IF Interleaved THEN NoSnapshot
  ELSE [books |-> books, members |-> members, loans |-> loans, now |-> now]

New(op) == [Idle EXCEPT !.op = op, !.pre = Snapshot]

(* The response.  The arguments and locals a later reader needs stay in    *)
(* the record (the target ids, the supplied fine_amount, the book document *)
(* a borrow read); the rest is gone once the handler has answered.         *)
Done(r, code, error) ==
  [Idle EXCEPT !.op = r.op, !.pc = "done", !.res = code, !.error = error,
               !.book_id = r.book_id, !.member_id = r.member_id, !.id = r.id,
               !.date = IF r.op = "borrow" THEN r.date ELSE NoDate,
               !.fine_amount = r.fine_amount,
               !.total_copies = IF r.op = "update_book" THEN r.total_copies
                                ELSE 0,
               !.max_books = IF r.op = "update_member" THEN r.max_books
                             ELSE 0,
               !.book = IF r.op = "borrow" THEN r.book ELSE Idle.book,
               !.lastID = IF code = 201 THEN r.lastID ELSE 0,
               !.calculatedFine = IF r.op = "return" /\ code = 200
                                    THEN r.calculatedFine ELSE 0,
               !.booksWithFines = IF r.op = "list_overdue" /\ code = 200
                                    THEN r.booksWithFines ELSE {},
               !.pre = r.pre, !.again = r.again, !.before = r.before]

(* A return that repeats the return just answered 200 for the same loan,   *)
(* and the available_copies of the loan's book before the first of them.   *)
Again(s, i) ==
  /\ ~Interleaved
  /\ reqs[s].pc = "done" /\ reqs[s].op = "return" /\ reqs[s].res = 200
  /\ reqs[s].id = i

Before(s, i) ==
  IF Again(s, i) THEN reqs[s].before
  ELSE IF ~Interleaved /\ LoanExists(i) /\ BookExists(loans[i].book_id)
    THEN books[loans[i].book_id].available_copies
  ELSE 0

(* The answers waiting in other slots are delivered when a request arrives *)
Arrive(s, r) ==
  [t \in Slots |-> IF t = s THEN r
                   ELSE IF reqs[t].pc = "done" THEN Idle ELSE reqs[t]]

Respond(s, code, error) == [reqs EXCEPT ![s] = Done(reqs[s], code, error)]
Goto(s, label) == [reqs EXCEPT ![s].pc = label]

----------------------------------------------------------------------------
(* Inputs.  mode names the workload, fixed when the server starts:         *)
(*   "concurrent"  requests of several clients on one book and one member, *)
(*                 interleaved at every store call;                        *)
(*   "serial"      one request at a time, over several books and members;  *)
(*   "fine"        one request at a time on a single loan, over a wide     *)
(*                 range of dates and fine amounts.                        *)
(*   "delete"      one request at a time on one book and one member, which *)
(*                 are borrowed, returned and deleted;                     *)
(*   "cap"         one request at a time on one book of several copies and *)
(*                 one member, whose max_books is lowered;                 *)
(*   "books"       requests of several clients on two books and one member *)
(*                 of max_books 1, interleaved at every store call;        *)
(*   "failure"     one request at a time on one book and one member, any   *)
(*                 one store call of a borrow or a return failing;         *)
(*   "edit"        requests of several clients on the seeded book 4 (two   *)
(*                 copies, both available), whose total is edited while it *)
(*                 is borrowed and returned;                               *)
(*   "removal"     requests of several clients on one book and one member, *)
(*                 which are deleted while the book is borrowed.           *)

(* The ids requests name: 0 is the id of no record; in the SQLite variant  *)
(* the racing requests name the seeded book 2 (one copy available) and the *)
(* seeded member 1, the serial ones the first created book and member;     *)
(* where a member's limit is lowered the requests name the seeded book 3   *)
(* (four copies).                                                          *)
FirstCreatedBook == IF variant = "sqlite" THEN Len(sampleBooks) + 1 ELSE 1
FirstCreatedMember == IF variant = "sqlite" THEN Len(sampleMembers) + 1 ELSE 1
BookArgs ==
  IF mode = "serial" THEN {0, FirstCreatedBook}
  ELSE IF variant = "mongo" THEN {FirstCreatedBook}
  ELSE IF mode = "cap" THEN {3}
  ELSE IF mode = "books" THEN {2, 3}
  ELSE IF mode = "edit" THEN {4}
  ELSE {2}
MemberArgs ==
  CASE mode = "serial" -> {0, FirstCreatedMember}
    [] mode = "books" -> {FirstCreatedMember}
    [] variant = "sqlite" -> {1}
    [] OTHER -> {FirstCreatedMember}
DueArgs == IF mode = "fine" THEN {1, 2} ELSE {1}
RenewArgs ==
  IF mode = "fine" THEN {0, 3}
  ELSE IF mode = "concurrent" /\ variant = "mongo" THEN {0, 2}
  ELSE {2}
ReturnDateArgs == IF mode = "fine" THEN {NoDate} \cup 0..MaxDate ELSE {NoDate}
LoanLimit ==
  IF mode = "fine" THEN 1
  ELSE IF mode = "cap" THEN MaxLoans + 1
  ELSE MaxLoans
LoanArgs == 0..LoanLimit
FineArgs ==
  CASE mode \in {"concurrent", "delete", "cap", "books", "failure", "edit",
                 "removal"}
         -> {NoFine}
    [] mode = "serial" -> {NoFine, [kind |-> "number", val |-> 75]}
    [] OTHER -> {NoFine, [kind |-> "number", val |-> 0],
                 [kind |-> "number", val |-> 75],
                 [kind |-> "string", val |-> 0],
                 [kind |-> "number", val |-> -100]}
TotalArgs ==
  IF mode = "serial" \/ (variant = "mongo" /\ mode # "cap") THEN {1, 2}
  ELSE IF mode = "edit" THEN {2, 3}
  ELSE {2}
StatusArgs == IF mode = "serial" THEN {"active", "suspended"} ELSE {"active"}
MaxBooksArgs ==
  IF mode = "serial" THEN {1, Null}
  ELSE IF mode = "cap" THEN {1, 2}
  ELSE {1}
TimeLimit == IF Interleaved THEN 1 ELSE MaxTime

----------------------------------------------------------------------------
(* Fine computation of the return handlers *)

(* Faulty variant: a started day counts as a whole day *)
diffDays_RoundedUp(a, b) ==
  IF a >= b THEN (a - b + TicksPerDay - 1) \div TicksPerDay
  ELSE -((b - a) \div TicksPerDay)

(* moment(a).diff(moment(b), 'days'): whole days, truncated toward zero *)
diffDays(a, b) ==
  IF a >= b THEN (a - b) \div TicksPerDay ELSE -((b - a) \div TicksPerDay)

(* !fine_amount, after the destructuring default fine_amount = 0 *)
Falsy(f) == f.kind = "absent" \/ (f.kind = "number" /\ f.val = 0)

calculatedFine(f, return_date, due_date) ==
  IF Falsy(f) /\ return_date > due_date
    THEN diffDays(return_date, due_date) * FinePerDay
    ELSE f.val

----------------------------------------------------------------------------
(* SQLite variant: POST /borrow *)

SqlBorrowGetBook(s) ==
  \E b \in BookArgs, m \in MemberArgs, d \in DueArgs :
    /\ variant = "sqlite" /\ CanStart(s)
    /\ Len(loans) < LoanLimit
    /\ LET r == [New("borrow") EXCEPT !.book_id = b, !.member_id = m,
                             !.date = d]
       IN  reqs' = Arrive(s,
             IF ~BookExists(b) THEN Done(r, 404, "book_not_found")
             ELSE IF books[b].available_copies <= 0
               THEN Done(r, 400, "book_not_available")
             ELSE [r EXCEPT !.pc = "borrow_member",
                            !.book = [total_copies |-> books[b].total_copies,
                                      available_copies |-> books[b].available_copies]])
    /\ UNCHANGED <<books, members, loans, now, mode, variant>>

(* Faulty variant: the copy is taken before the member is looked at *)
SqlBorrowGetMember_TakesCopyFirst(s) ==
  /\ variant = "sqlite"
  /\ reqs[s].op = "borrow" /\ reqs[s].pc = "borrow_member"
  /\ LET m == reqs[s].member_id
         b == reqs[s].book_id
     IN  /\ books' = [books EXCEPT ![b].available_copies = @ - 1]
         /\ reqs' =
               IF ~MemberExists(m) THEN Respond(s, 404, "member_not_found")
               ELSE IF members[m].membership_status # "active"
                 THEN Respond(s, 400, "member_not_active")
               ELSE IF AtLimit(active_borrowings(m), members[m].max_books)
                 THEN Respond(s, 400, "limit_reached")
               ELSE Goto(s, "borrow_insert")
  /\ UNCHANGED <<members, loans, now, mode, variant>>

(* Faulty variant: the limit is reached only above max_books *)
SqlBorrowGetMember_OneOverLimit(s) ==
  /\ variant = "sqlite"
  /\ reqs[s].op = "borrow" /\ reqs[s].pc = "borrow_member"
  /\ LET m == reqs[s].member_id
     IN  reqs' =
           IF ~MemberExists(m) THEN Respond(s, 404, "member_not_found")
           ELSE IF members[m].membership_status # "active"
             THEN Respond(s, 400, "member_not_active")
           ELSE IF active_borrowings(m) > members[m].max_books
             THEN Respond(s, 400, "limit_reached")
           ELSE Goto(s, "borrow_insert")
  /\ UNCHANGED <<books, members, loans, now, mode, variant>>

SqlBorrowGetMember(s) ==
  /\ variant = "sqlite"
  /\ reqs[s].op = "borrow" /\ reqs[s].pc = "borrow_member"
  /\ LET m == reqs[s].member_id
     IN  reqs' =
           IF ~MemberExists(m) THEN Respond(s, 404, "member_not_found")
           ELSE IF members[m].membership_status # "active"
             THEN Respond(s, 400, "member_not_active")
           ELSE IF AtLimit(active_borrowings(m), members[m].max_books)
             THEN Respond(s, 400, "limit_reached")
           ELSE Goto(s, "borrow_insert")
  /\ UNCHANGED <<books, members, loans, now, mode, variant>>

SqlBorrowInsert(s) ==
  /\ variant = "sqlite"
  /\ reqs[s].op = "borrow" /\ reqs[s].pc = "borrow_insert"
  /\ loans' = Append(loans, Loan(reqs[s].book_id, reqs[s].member_id,
                                 reqs[s].date, "borrowed"))
  /\ reqs' = [reqs EXCEPT ![s].pc = "borrow_update", ![s].lastID = Len(loans) + 1]
  /\ UNCHANGED <<books, members, now, mode, variant>>

SqlBorrowUpdateBook(s) ==
  /\ variant = "sqlite"
  /\ reqs[s].op = "borrow" /\ reqs[s].pc = "borrow_update"
  /\ LET b == reqs[s].book_id
     IN  books' = IF BookExists(b)
                    THEN [books EXCEPT ![b].available_copies = @ - 1]
                    ELSE books
  /\ reqs' = Respond(s, 201, "none")
  /\ UNCHANGED <<members, loans, now, mode, variant>>

----------------------------------------------------------------------------
(* SQLite variant: POST /return/:id *)

SqlReturnGetTransaction(s) ==
  \E i \in LoanArgs, f \in FineArgs, d \in ReturnDateArgs :
    /\ variant = "sqlite" /\ CanStart(s)
    /\ LET return_date == IF d = NoDate THEN now ELSE d
           r == [New("return") EXCEPT !.id = i, !.date = return_date,
                                      !.fine_amount = f,
                                      !.again = Again(s, i),
                                      !.before = Before(s, i)]
       IN  reqs' = Arrive(s,
             IF ~LoanExists(i) THEN Done(r, 404, "transaction_not_found")
             ELSE IF loans[i].status # "borrowed"
               THEN Done(r, 400, "already_returned")
             ELSE [r EXCEPT !.pc = "return_update",
                            !.transaction = [book_id |-> loans[i].book_id,
                                             due_date |-> loans[i].due_date],
                            !.calculatedFine =
                               calculatedFine(f, return_date, loans[i].due_date)])
    /\ UNCHANGED <<books, members, loans, now, mode, variant>>

SqlReturnUpdateTransaction(s) ==
  /\ variant = "sqlite"
  /\ reqs[s].op = "return" /\ reqs[s].pc = "return_update"
  /\ loans' = [loans EXCEPT ![reqs[s].id].return_date = reqs[s].date,
                            ![reqs[s].id].status = "returned",
                            ![reqs[s].id].fine_amount = reqs[s].calculatedFine]
  /\ reqs' = Goto(s, "return_book")
  /\ UNCHANGED <<books, members, now, mode, variant>>

(* Faulty variant: the copy is not given back *)
SqlReturnUpdateBook_KeepsCopy(s) ==
  /\ variant = "sqlite"
  /\ reqs[s].op = "return" /\ reqs[s].pc = "return_book"
  /\ reqs' = Respond(s, 200, "none")
  /\ UNCHANGED <<books, members, loans, now, mode, variant>>

SqlReturnUpdateBook(s) ==
  /\ variant = "sqlite"
  /\ reqs[s].op = "return" /\ reqs[s].pc = "return_book"
  /\ LET b == reqs[s].transaction.book_id
     IN  books' = IF BookExists(b)
                    THEN [books EXCEPT ![b].available_copies = @ + 1]
                    ELSE books
  /\ reqs' = Respond(s, 200, "none")
  /\ UNCHANGED <<members, loans, now, mode, variant>>

----------------------------------------------------------------------------
(* SQLite variant: POST /renew/:id *)

SqlRenewGetTransaction(s) ==
  \E i \in LoanArgs, d \in RenewArgs :
    /\ variant = "sqlite" /\ CanStart(s)
    /\ LET r == [New("renew") EXCEPT !.id = i, !.date = d]
       IN  reqs' = Arrive(s,
             IF ~LoanExists(i) THEN Done(r, 404, "transaction_not_found")
             ELSE IF loans[i].status # "borrowed"
               THEN Done(r, 400, "cannot_renew_returned")
             ELSE [r EXCEPT !.pc = "renew_update"])
    /\ UNCHANGED <<books, members, loans, now, mode, variant>>

SqlRenewUpdate(s) ==
  /\ variant = "sqlite"
  /\ reqs[s].op = "renew" /\ reqs[s].pc = "renew_update"
  /\ loans' = [loans EXCEPT ![reqs[s].id].due_date = reqs[s].date]
  /\ reqs' = Respond(s, 200, "none")
  /\ UNCHANGED <<books, members, now, mode, variant>>

----------------------------------------------------------------------------
(* SQLite variant: POST /books, PUT /books/:id *)

SqlCreateBook(s) ==
  \E n \in TotalArgs :
    /\ variant = "sqlite" /\ CanStart(s)
    /\ Len(books) < Len(sampleBooks) + MaxCreated
    /\ books' = Append(books, Book(n, n))
    /\ reqs' = Arrive(s,
         Done([New("create_book") EXCEPT !.total_copies = n,
                           !.lastID = Len(books) + 1], 201, "none"))
    /\ UNCHANGED <<members, loans, now, mode, variant>>

(* Faulty variant: every copy of the new total is made available *)
SqlUpdateBookGet_AllAvailable(s) ==
  \E b \in BookArgs, n \in TotalArgs :
    /\ variant = "sqlite" /\ CanStart(s)
    /\ LET r == [New("update_book") EXCEPT !.book_id = b,
                             !.total_copies = n]
       IN  reqs' = Arrive(s,
             IF ~BookExists(b) THEN Done(r, 404, "book_not_found")
             ELSE [r EXCEPT !.pc = "update_book_run",
                            !.book = [total_copies |-> n,
                                      available_copies |-> n]])
    /\ UNCHANGED <<books, members, loans, now, mode, variant>>

SqlUpdateBookGet(s) ==
  \E b \in BookArgs, n \in TotalArgs :
    /\ variant = "sqlite" /\ CanStart(s)
    /\ LET r == [New("update_book") EXCEPT !.book_id = b,
                             !.total_copies = n]
           borrowed_count == books[b].total_copies - books[b].available_copies
           new_available == n - borrowed_count
       IN  reqs' = Arrive(s,
             IF ~BookExists(b) THEN Done(r, 404, "book_not_found")
             ELSE IF new_available < 0
               THEN Done(r, 400, "copies_below_borrowed")
             ELSE [r EXCEPT !.pc = "update_book_run",
                            !.book = [total_copies |-> n,
                                      available_copies |-> new_available]])
    /\ UNCHANGED <<books, members, loans, now, mode, variant>>

SqlUpdateBookRun(s) ==
  /\ variant = "sqlite"
  /\ reqs[s].op = "update_book" /\ reqs[s].pc = "update_book_run"
  /\ LET b == reqs[s].book_id
     IN  IF BookExists(b)
           THEN /\ books' = [books EXCEPT
                               ![b].total_copies = reqs[s].book.total_copies,
                               ![b].available_copies = reqs[s].book.available_copies]
                /\ reqs' = Respond(s, 200, "none")
           ELSE /\ books' = books
                /\ reqs' = Respond(s, 404, "book_not_found")
  /\ UNCHANGED <<members, loans, now, mode, variant>>

----------------------------------------------------------------------------
(* SQLite variant: POST /members, PUT /members/:id *)

SqlCreateMember(s) ==
  \E n \in MaxBooksArgs :
    /\ variant = "sqlite" /\ CanStart(s)
    /\ Len(members) < Len(sampleMembers) + MaxCreated
    /\ members' = Append(members,
                     Member("active", IF n = Null THEN DefaultMaxBooks ELSE n))
    /\ reqs' = Arrive(s,
         Done([New("create_member") EXCEPT !.max_books = n,
                           !.lastID = Len(members) + 1], 201, "none"))
    /\ UNCHANGED <<books, loans, now, mode, variant>>

SqlUpdateMember(s) ==
  \E m \in MemberArgs, st \in StatusArgs, n \in MaxBooksArgs :
    /\ variant = "sqlite" /\ CanStart(s)
    /\ LET r == [New("update_member") EXCEPT !.member_id = m,
                             !.membership_status = st, !.max_books = n]
       IN  IF MemberExists(m)
             THEN /\ members' = [members EXCEPT ![m].membership_status = st,
                                                ![m].max_books = n]
                  /\ reqs' = Arrive(s, Done(r, 200, "none"))
             ELSE /\ members' = members
                  /\ reqs' = Arrive(s, Done(r, 404, "member_not_found"))
    /\ UNCHANGED <<books, loans, now, mode, variant>>

----------------------------------------------------------------------------
(* Mongoose variant: the schemas' pre('save') middleware *)

(* borrowingTransactionSchema.pre('save') *)
TransactionPreSave(status, due_date) ==
  IF status = "borrowed" /\ now > due_date THEN "overdue" ELSE status

(* bookSchema.pre('save') *)
BookPreSave(available, total) == IF available > total THEN total ELSE available

----------------------------------------------------------------------------
(* Mongoose variant: POST /borrow *)

MongoBorrowFindBook(s) ==
  \E b \in BookArgs, m \in MemberArgs, d \in DueArgs :
    /\ variant = "mongo" /\ CanStart(s)
    /\ Len(loans) < LoanLimit
    /\ LET r == [New("borrow") EXCEPT !.book_id = b, !.member_id = m,
                             !.date = d]
       IN  reqs' = Arrive(s,
             IF ~BookExists(b) THEN Done(r, 404, "book_not_found")
             ELSE IF books[b].available_copies <= 0 THEN Done(r, 400, "book_not_available")
             ELSE [r EXCEPT !.pc = "borrow_member",
                            !.book = [total_copies |-> books[b].total_copies,
                                      available_copies |-> books[b].available_copies]])
    /\ UNCHANGED <<books, members, loans, now, mode, variant>>

(* Faulty variant: a missing member is answered like an inactive one *)
MongoBorrowFindMember_MissingIsInactive(s) ==
  /\ variant = "mongo"
  /\ reqs[s].op = "borrow" /\ reqs[s].pc = "borrow_member"
  /\ LET m == reqs[s].member_id
     IN  reqs' =
           IF ~MemberExists(m) \/ members[m].membership_status # "active"
             THEN Respond(s, 400, "member_not_active")
           ELSE [reqs EXCEPT ![s].pc = "borrow_count",
                             ![s].member = [max_books |-> members[m].max_books]]
  /\ UNCHANGED <<books, members, loans, now, mode, variant>>

MongoBorrowFindMember(s) ==
  /\ variant = "mongo"
  /\ reqs[s].op = "borrow" /\ reqs[s].pc = "borrow_member"
  /\ LET m == reqs[s].member_id
     IN  reqs' =
           IF ~MemberExists(m) THEN Respond(s, 404, "member_not_found")
           ELSE IF members[m].membership_status # "active"
             THEN Respond(s, 400, "member_not_active")
           ELSE [reqs EXCEPT ![s].pc = "borrow_count",
                             ![s].member = [max_books |-> members[m].max_books]]
  /\ UNCHANGED <<books, members, loans, now, mode, variant>>

MongoBorrowCount(s) ==
  /\ variant = "mongo"
  /\ reqs[s].op = "borrow" /\ reqs[s].pc = "borrow_count"
  /\ reqs' = IF AtLimit(active_borrowings(reqs[s].member_id), reqs[s].member.max_books)
               THEN Respond(s, 400, "limit_reached")
               ELSE Goto(s, "borrow_insert")
  /\ UNCHANGED <<books, members, loans, now, mode, variant>>

MongoBorrowSave(s) ==
  /\ variant = "mongo"
  /\ reqs[s].op = "borrow" /\ reqs[s].pc = "borrow_insert"
  /\ loans' = Append(loans, Loan(reqs[s].book_id, reqs[s].member_id, reqs[s].date,
                                 TransactionPreSave("borrowed", reqs[s].date)))
  /\ reqs' = [reqs EXCEPT ![s].pc = "borrow_update", ![s].lastID = Len(loans) + 1]
  /\ UNCHANGED <<books, members, now, mode, variant>>

(* book.available_copies -= 1; await book.save(): the value computed from   *)
(* the document read in the first step is written.                         *)
MongoBorrowSaveBook(s) ==
  /\ variant = "mongo"
  /\ reqs[s].op = "borrow" /\ reqs[s].pc = "borrow_update"
  /\ LET b == reqs[s].book_id
         available == BookPreSave(reqs[s].book.available_copies - 1,
                                  reqs[s].book.total_copies)
     IN  IF BookExists(b)
           THEN /\ books' = [books EXCEPT ![b].available_copies = available]
                /\ reqs' = Respond(s, 201, "none")
           ELSE /\ books' = books
                /\ reqs' = Respond(s, 500, "document_not_found")
  /\ UNCHANGED <<members, loans, now, mode, variant>>

----------------------------------------------------------------------------
(* Mongoose variant: POST /return/:id *)

MongoReturnFind(s) ==
  \E i \in LoanArgs, f \in FineArgs, d \in ReturnDateArgs :
    /\ variant = "mongo" /\ CanStart(s)
    /\ LET return_date == IF d = NoDate THEN now ELSE d
           r == [New("return") EXCEPT !.id = i, !.date = return_date,
                                      !.fine_amount = f,
                                      !.again = Again(s, i),
                                      !.before = Before(s, i)]
       IN  reqs' = Arrive(s,
             IF ~LoanExists(i) THEN Done(r, 404, "transaction_not_found")
             ELSE IF loans[i].status # "borrowed" THEN Done(r, 400, "already_returned")
             ELSE [r EXCEPT !.pc = "return_update",
                            !.transaction = [book_id |-> loans[i].book_id,
                                             due_date |-> loans[i].due_date],
                            !.calculatedFine =
                               calculatedFine(f, return_date, loans[i].due_date)])
    /\ UNCHANGED <<books, members, loans, now, mode, variant>>

(* await transaction.save(): fine_amount has min: 0, a negative one is      *)
(* refused by validation and the handler answers 500.                      *)
MongoReturnSave(s) ==
  /\ variant = "mongo"
  /\ reqs[s].op = "return" /\ reqs[s].pc = "return_update"
  /\ IF reqs[s].calculatedFine < 0
       THEN /\ loans' = loans
            /\ reqs' = Respond(s, 500, "validation_error")
       ELSE /\ loans' = [loans EXCEPT ![reqs[s].id].return_date = reqs[s].date,
                                      ![reqs[s].id].status = "returned",
                                      ![reqs[s].id].fine_amount = reqs[s].calculatedFine]
            /\ reqs' = Goto(s, "return_book")
  /\ UNCHANGED <<books, members, now, mode, variant>>

MongoReturnFindBook(s) ==
  /\ variant = "mongo"
  /\ reqs[s].op = "return" /\ reqs[s].pc = "return_book"
  /\ LET b == reqs[s].transaction.book_id
     IN  reqs' = IF ~BookExists(b) THEN Respond(s, 200, "none")
                 ELSE [reqs EXCEPT ![s].pc = "return_book_save",
                         ![s].book = [total_copies |-> books[b].total_copies,
                                      available_copies |-> books[b].available_copies]]
  /\ UNCHANGED <<books, members, loans, now, mode, variant>>

MongoReturnSaveBook(s) ==
  /\ variant = "mongo"
  /\ reqs[s].op = "return" /\ reqs[s].pc = "return_book_save"
  /\ LET b == reqs[s].transaction.book_id
         available == BookPreSave(reqs[s].book.available_copies + 1,
                                  reqs[s].book.total_copies)
     IN  IF BookExists(b)
           THEN /\ books' = [books EXCEPT ![b].available_copies = available]
                /\ reqs' = Respond(s, 200, "none")
           ELSE /\ books' = books
                /\ reqs' = Respond(s, 500, "document_not_found")
  /\ UNCHANGED <<members, loans, now, mode, variant>>

----------------------------------------------------------------------------
(* Mongoose variant: POST /renew/:id *)

MongoRenewFind(s) ==
  \E i \in LoanArgs, d \in RenewArgs :
    /\ variant = "mongo" /\ CanStart(s)
    /\ LET r == [New("renew") EXCEPT !.id = i, !.date = d]
       IN  reqs' = Arrive(s,
             IF ~LoanExists(i) THEN Done(r, 404, "transaction_not_found")
             ELSE IF loans[i].status # "borrowed" THEN Done(r, 400, "cannot_renew_returned")
             ELSE [r EXCEPT !.pc = "renew_update"])
    /\ UNCHANGED <<books, members, loans, now, mode, variant>>

(* transaction.due_date = new_due_date; await transaction.save(): the      *)
(* document in memory has status 'borrowed'; save() writes the modified    *)
(* paths, due_date and, when the middleware changed it, status.            *)
MongoRenewSave(s) ==
  /\ variant = "mongo"
  /\ reqs[s].op = "renew" /\ reqs[s].pc = "renew_update"
  /\ loans' = [loans EXCEPT ![reqs[s].id].due_date = reqs[s].date,
                            ![reqs[s].id].status =
                               IF TransactionPreSave("borrowed", reqs[s].date)
                                    = "borrowed"
                                 THEN @
                                 ELSE TransactionPreSave("borrowed", reqs[s].date)]
  /\ reqs' = Respond(s, 200, "none")
  /\ UNCHANGED <<books, members, now, mode, variant>>

----------------------------------------------------------------------------
(* Mongoose variant: POST /books (its route is not among the sources: the  *)
(* catalog entry of the specification), POST /members                      *)

MongoCreateBook(s) ==
  \E n \in TotalArgs :
    /\ variant = "mongo" /\ CanStart(s)
    /\ Len(books) < MaxCreated
    /\ books' = Append(books, Book(n, n))
    /\ reqs' = Arrive(s,
         Done([New("create_book") EXCEPT !.total_copies = n,
                           !.lastID = Len(books) + 1], 201, "none"))
    /\ UNCHANGED <<members, loans, now, mode, variant>>

MongoCreateMember(s) ==
  \E n \in MaxBooksArgs :
    /\ variant = "mongo" /\ CanStart(s)
    /\ Len(members) < MaxCreated
    /\ members' = Append(members,
                     Member("active", IF n = Null THEN DefaultMaxBooks ELSE n))
    /\ reqs' = Arrive(s,
         Done([New("create_member") EXCEPT !.max_books = n,
                           !.lastID = Len(members) + 1], 201, "none"))
    /\ UNCHANGED <<books, loans, now, mode, variant>>

----------------------------------------------------------------------------
(* SQLite variant: DELETE /books/:id, DELETE /members/:id.  The schema's   *)
(* FOREIGN KEY clauses are not enforced (no PRAGMA foreign_keys), so the   *)
(* DELETE itself never fails for the sake of a loan row.                   *)

(* Faulty variant: the loans of the book are not counted *)
SqlDeleteBookCount_Unguarded(s) ==
  \E b \in BookArgs :
    /\ variant = "sqlite" /\ CanStart(s)
    /\ reqs' = Arrive(s, [New("delete_book") EXCEPT !.book_id = b,
                                                   !.pc = "delete_book_run"])
    /\ UNCHANGED <<books, members, loans, now, mode, variant>>

SqlDeleteBookCount(s) ==
  \E b \in BookArgs :
    /\ variant = "sqlite" /\ CanStart(s)
    /\ LET r == [New("delete_book") EXCEPT !.book_id = b]
       IN  reqs' = Arrive(s,
             IF BookActiveCount(b) > 0
               THEN Done(r, 400, "active_borrowings")
               ELSE [r EXCEPT !.pc = "delete_book_run"])
    /\ UNCHANGED <<books, members, loans, now, mode, variant>>

SqlDeleteBookRun(s) ==
  /\ variant = "sqlite"
  /\ reqs[s].op = "delete_book" /\ reqs[s].pc = "delete_book_run"
  /\ LET b == reqs[s].book_id
     IN  IF BookExists(b)
           THEN /\ books' = [books EXCEPT ![b].exists = FALSE]
                /\ reqs' = Respond(s, 200, "none")
           ELSE /\ books' = books
                /\ reqs' = Respond(s, 404, "book_not_found")
  /\ UNCHANGED <<members, loans, now, mode, variant>>

SqlDeleteMemberCount(s) ==
  \E m \in MemberArgs :
    /\ variant = "sqlite" /\ CanStart(s)
    /\ LET r == [New("delete_member") EXCEPT !.member_id = m]
       IN  reqs' = Arrive(s,
             IF active_borrowings(m) > 0
               THEN Done(r, 400, "active_borrowings")
               ELSE [r EXCEPT !.pc = "delete_member_run"])
    /\ UNCHANGED <<books, members, loans, now, mode, variant>>

SqlDeleteMemberRun(s) ==
  /\ variant = "sqlite"
  /\ reqs[s].op = "delete_member" /\ reqs[s].pc = "delete_member_run"
  /\ LET m == reqs[s].member_id
     IN  IF MemberExists(m)
           THEN /\ members' = [members EXCEPT ![m].exists = FALSE]
                /\ reqs' = Respond(s, 200, "none")
           ELSE /\ members' = members
                /\ reqs' = Respond(s, 404, "member_not_found")
  /\ UNCHANGED <<books, loans, now, mode, variant>>

----------------------------------------------------------------------------
(* Mongoose variant: DELETE /members/:id *)

MongoDeleteMemberCount(s) ==
  \E m \in MemberArgs :
    /\ variant = "mongo" /\ CanStart(s)
    /\ LET r == [New("delete_member") EXCEPT !.member_id = m]
       IN  reqs' = Arrive(s,
             IF active_borrowings(m) > 0
               THEN Done(r, 400, "active_borrowings")
               ELSE [r EXCEPT !.pc = "delete_member_run"])
    /\ UNCHANGED <<books, members, loans, now, mode, variant>>

MongoDeleteMemberDelete(s) ==
  /\ variant = "mongo"
  /\ reqs[s].op = "delete_member" /\ reqs[s].pc = "delete_member_run"
  /\ LET m == reqs[s].member_id
     IN  IF MemberExists(m)
           THEN /\ members' = [members EXCEPT ![m].exists = FALSE]
                /\ reqs' = Respond(s, 200, "none")
           ELSE /\ members' = members
                /\ reqs' = Respond(s, 404, "member_not_found")
  /\ UNCHANGED <<books, loans, now, mode, variant>>

----------------------------------------------------------------------------
(* Mongoose variant: PUT /members/:id.  findByIdAndUpdate leaves out the   *)
(* fields the body omits and, with runValidators, refuses a max_books      *)
(* outside the schema's min and max.                                       *)

MongoUpdateMember(s) ==
  \E m \in MemberArgs, st \in StatusArgs, n \in MaxBooksArgs :
    /\ variant = "mongo" /\ CanStart(s)
    /\ LET r == [New("update_member") EXCEPT !.member_id = m,
                             !.membership_status = st, !.max_books = n]
       IN  IF n # Null /\ (n < MinMaxBooks \/ n > MaxMaxBooks)
             THEN /\ members' = members
                  /\ reqs' = Arrive(s, Done(r, 500, "validation_error"))
           ELSE IF MemberExists(m)
             THEN /\ members' = [members EXCEPT
                                   ![m].membership_status = st,
                                   ![m].max_books = IF n = Null THEN @ ELSE n]
                  /\ reqs' = Arrive(s, Done(r, 200, "none"))
             ELSE /\ members' = members
                  /\ reqs' = Arrive(s, Done(r, 404, "member_not_found"))
    /\ UNCHANGED <<books, loans, now, mode, variant>>

----------------------------------------------------------------------------
(* A store call of POST /borrow or POST /return/:id fails.  Either variant *)
(* answers 500 and makes no further call: the SQLite callbacks return at   *)
(* if (err), the Mongoose handlers land in their catch.  What the earlier  *)
(* calls of the request wrote stays written.                               *)

(* The first call of the handler fails *)
StoreErrorOnArrival(s) ==
  \E b \in BookArgs, m \in MemberArgs, d \in DueArgs, i \in LoanArgs,
     op \in {"borrow", "return"} :
    /\ CanStart(s)
    /\ reqs' = Arrive(s,
         Done(IF op = "borrow"
                THEN [New("borrow") EXCEPT !.book_id = b, !.member_id = m,
                                           !.date = d]
                ELSE [New("return") EXCEPT !.id = i],
              500, "store_error"))
    /\ UNCHANGED <<books, members, loans, now, mode, variant>>

(* A later call of the handler fails *)
StoreError(s) ==
  /\ reqs[s].op \in {"borrow", "return"} /\ InFlight(s)
  /\ reqs' = Respond(s, 500, "store_error")
  /\ UNCHANGED <<books, members, loans, now, mode, variant>>

----------------------------------------------------------------------------
(* GET /overdue *)

(* One element of the answer: the loan with its days_overdue and           *)
(* calculated_fine, moment().diff(due_date, 'days') and that times 0.50    *)
OverdueRow(i) ==
  [id |-> i, days_overdue |-> diffDays(now, loans[i].due_date),
   calculated_fine |-> diffDays(now, loans[i].due_date) * FinePerDay]

(* WHERE bt.due_date < datetime('now') compares the stored text, an ISO    *)
(* 8601 instant 'YYYY-MM-DDTHH:MM:SS', with 'YYYY-MM-DD HH:MM:SS': the     *)
(* dates decide, and on equal dates 'T' sorts after the blank.             *)
SqlDueBeforeNow(due_date) == due_date \div TicksPerDay < now \div TicksPerDay

(* SQLite variant: one db.all; the inner joins keep the loans whose book   *)
(* and member rows exist.  Nothing is written.                             *)
SqlListOverdue(s) ==
  /\ variant = "sqlite" /\ CanStart(s)
  /\ LET r == [New("list_overdue") EXCEPT
                 !.booksWithFines =
                    {OverdueRow(i) : i \in
                       {j \in 1..Len(loans) :
                          /\ loans[j].status = "borrowed"
                          /\ SqlDueBeforeNow(loans[j].due_date)
                          /\ BookExists(loans[j].book_id)
                          /\ MemberExists(loans[j].member_id)}}]
     IN  reqs' = Arrive(s, Done(r, 200, "none"))
  /\ UNCHANGED <<books, members, loans, now, mode, variant>>

(* Mongoose variant: one find with populate; a loan whose book or member   *)
(* document is gone populates to null and reading its title or name throws *)
(* into the catch.  Nothing is written.                                    *)
MongoListOverdue(s) ==
  /\ variant = "mongo" /\ CanStart(s)
  /\ LET overdueTransactions ==
           {j \in 1..Len(loans) : /\ loans[j].status = "borrowed"
                                  /\ loans[j].due_date < now}
         r == [New("list_overdue") EXCEPT
                 !.booksWithFines =
                    {OverdueRow(i) : i \in overdueTransactions}]
     IN  reqs' = Arrive(s,
           IF \E j \in overdueTransactions :
                \/ ~BookExists(loans[j].book_id)
                \/ ~MemberExists(loans[j].member_id)
             THEN Done(r, 500, "type_error")
             ELSE Done(r, 200, "none"))
  /\ UNCHANGED <<books, members, loans, now, mode, variant>>

----------------------------------------------------------------------------
(* The clock *)

Tick ==
  /\ now < TimeLimit
  /\ now' = now + 1
  /\ UNCHANGED <<books, members, loans, reqs, mode, variant>>

----------------------------------------------------------------------------
(* SQLite variant: the database after initDatabase() on an empty file *)

InitStoreSqlite ==
  /\ variant = "sqlite"
  /\ books = sampleBooks
  /\ members = sampleMembers
  /\ loans = << >>
  /\ now = 0
  /\ reqs = [s \in Slots |-> Idle]

(* Mongoose variant: empty collections *)

InitStoreMongo ==
  /\ variant = "mongo"
  /\ books = << >>
  /\ members = << >>
  /\ loans = << >>
  /\ now = 0
  /\ reqs = [s \in Slots |-> Idle]

BorrowingSteps(s) ==
  \/ SqlBorrowGetBook(s)
  \/ SqlBorrowGetMember(s)
  \/ SqlBorrowInsert(s)
  \/ SqlBorrowUpdateBook(s)
  \/ SqlReturnGetTransaction(s)
  \/ SqlReturnUpdateTransaction(s)
  \/ SqlReturnUpdateBook(s)
  \/ SqlRenewGetTransaction(s)
  \/ SqlRenewUpdate(s)

MongoBorrowingSteps(s) ==
  \/ MongoBorrowFindBook(s)
  \/ MongoBorrowFindMember(s)
  \/ MongoBorrowCount(s)
  \/ MongoBorrowSave(s)
  \/ MongoBorrowSaveBook(s)
  \/ MongoReturnFind(s)
  \/ MongoReturnSave(s)
  \/ MongoReturnFindBook(s)
  \/ MongoReturnSaveBook(s)
  \/ MongoRenewFind(s)
  \/ MongoRenewSave(s)

(* The requests that race on a seeded book and a seeded member *)
NextRace ==
  \/ Tick
  \/ \E s \in Slots :
       \/ BorrowingSteps(s)
       \/ SqlUpdateBookGet(s)
       \/ SqlUpdateBookRun(s)
       \/ SqlUpdateMember(s)

NextMongo ==
  \/ Tick
  \/ \E s \in Slots :
       \/ MongoBorrowingSteps(s)
       \/ MongoCreateBook(s)
       \/ MongoCreateMember(s)
       \/ MongoListOverdue(s)

(* Either variant, on its own store *)
NextBoth ==
  \/ Tick
  \/ \E s \in Slots :
       \/ BorrowingSteps(s)
       \/ SqlCreateBook(s)
       \/ SqlUpdateBookGet(s)
       \/ SqlUpdateBookRun(s)
       \/ SqlCreateMember(s)
       \/ SqlUpdateMember(s)
       \/ MongoBorrowingSteps(s)
       \/ MongoCreateBook(s)
       \/ MongoCreateMember(s)

NextFine ==
  \/ Tick
  \/ \E s \in Slots :
       \/ BorrowingSteps(s)
       \/ SqlListOverdue(s)
       \/ MongoBorrowingSteps(s)
       \/ MongoCreateBook(s)
       \/ MongoCreateMember(s)
       \/ MongoListOverdue(s)

(* Borrowing and deleting, in either variant *)
NextDelete ==
  \/ Tick
  \/ \E s \in Slots :
       \/ BorrowingSteps(s)
       \/ SqlDeleteBookCount(s)
       \/ SqlDeleteBookRun(s)
       \/ SqlDeleteMemberCount(s)
       \/ SqlDeleteMemberRun(s)
       \/ MongoBorrowingSteps(s)
       \/ MongoCreateBook(s)
       \/ MongoCreateMember(s)
       \/ MongoDeleteMemberCount(s)
       \/ MongoDeleteMemberDelete(s)

(* Borrowing and updating a member, in either variant *)
NextCap ==
  \/ Tick
  \/ \E s \in Slots :
       \/ BorrowingSteps(s)
       \/ SqlUpdateMember(s)
       \/ MongoBorrowingSteps(s)
       \/ MongoCreateBook(s)
       \/ MongoCreateMember(s)
       \/ MongoUpdateMember(s)

(* SQLite variant: borrows and returns of one created member on two books *)
NextBooks ==
  \/ Tick
  \/ \E s \in Slots :
       \/ SqlCreateMember(s)
       \/ SqlBorrowGetBook(s)
       \/ SqlBorrowGetMember(s)
       \/ SqlBorrowInsert(s)
       \/ SqlBorrowUpdateBook(s)
       \/ SqlReturnGetTransaction(s)
       \/ SqlReturnUpdateTransaction(s)
       \/ SqlReturnUpdateBook(s)

(* Either variant: borrows and returns whose store calls may fail *)
NextFailure ==
  \/ Tick
  \/ \E s \in Slots :
       \/ SqlBorrowGetBook(s)
       \/ SqlBorrowGetMember(s)
       \/ SqlBorrowInsert(s)
       \/ SqlBorrowUpdateBook(s)
       \/ SqlReturnGetTransaction(s)
       \/ SqlReturnUpdateTransaction(s)
       \/ SqlReturnUpdateBook(s)
       \/ MongoBorrowFindBook(s)
       \/ MongoBorrowFindMember(s)
       \/ MongoBorrowCount(s)
       \/ MongoBorrowSave(s)
       \/ MongoBorrowSaveBook(s)
       \/ MongoReturnFind(s)
       \/ MongoReturnSave(s)
       \/ MongoReturnFindBook(s)
       \/ MongoReturnSaveBook(s)
       \/ MongoCreateBook(s)
       \/ MongoCreateMember(s)
       \/ StoreErrorOnArrival(s)
       \/ StoreError(s)

(* SQLite variant: a book edited while it is borrowed and returned *)
NextEdit ==
  \/ Tick
  \/ \E s \in Slots :
       \/ SqlBorrowGetBook(s)
       \/ SqlBorrowGetMember(s)
       \/ SqlBorrowInsert(s)
       \/ SqlBorrowUpdateBook(s)
       \/ SqlReturnGetTransaction(s)
       \/ SqlReturnUpdateTransaction(s)
       \/ SqlReturnUpdateBook(s)
       \/ SqlUpdateBookGet(s)
       \/ SqlUpdateBookRun(s)

(* SQLite variant: a book and a member deleted while the book is borrowed *)
NextRemoval ==
  \/ Tick
  \/ \E s \in Slots :
       \/ SqlBorrowGetBook(s)
       \/ SqlBorrowGetMember(s)
       \/ SqlBorrowInsert(s)
       \/ SqlBorrowUpdateBook(s)
       \/ SqlDeleteBookCount(s)
       \/ SqlDeleteBookRun(s)
       \/ SqlDeleteMemberCount(s)
       \/ SqlDeleteMemberRun(s)

Init ==
  /\ InitStoreSqlite
  /\ mode = "concurrent"

InitRemoval ==
  /\ InitStoreSqlite
  /\ mode = "removal"

InitEdit ==
  /\ InitStoreSqlite
  /\ mode = "edit"

InitBooks ==
  /\ InitStoreSqlite
  /\ mode = "books"

InitMongo ==
  /\ InitStoreMongo
  /\ mode = "concurrent"

InitSerial ==
  /\ variant \in {"sqlite", "mongo"}
  /\ books = IF variant = "sqlite" THEN sampleBooks ELSE << >>
  /\ members = IF variant = "sqlite" THEN sampleMembers ELSE << >>
  /\ loans = << >>
  /\ now = 0
  /\ reqs = [s \in Slots |-> Idle]
  /\ mode = "serial"

InitFine ==
  /\ variant \in {"sqlite", "mongo"}
  /\ books = IF variant = "sqlite" THEN sampleBooks ELSE << >>
  /\ members = IF variant = "sqlite" THEN sampleMembers ELSE << >>
  /\ loans = << >>
  /\ now = 0
  /\ reqs = [s \in Slots |-> Idle]
  /\ mode = "fine"

InitDelete ==
  /\ variant \in {"sqlite", "mongo"}
  /\ books = IF variant = "sqlite" THEN sampleBooks ELSE << >>
  /\ members = IF variant = "sqlite" THEN sampleMembers ELSE << >>
  /\ loans = << >>
  /\ now = 0
  /\ reqs = [s \in Slots |-> Idle]
  /\ mode = "delete"

InitFailure ==
  /\ variant \in {"sqlite", "mongo"}
  /\ books = IF variant = "sqlite" THEN sampleBooks ELSE << >>
  /\ members = IF variant = "sqlite" THEN sampleMembers ELSE << >>
  /\ loans = << >>
  /\ now = 0
  /\ reqs = [s \in Slots |-> Idle]
  /\ mode = "failure"

InitCap ==
  /\ variant \in {"sqlite", "mongo"}
  /\ books = IF variant = "sqlite" THEN sampleBooks ELSE << >>
  /\ members = IF variant = "sqlite" THEN sampleMembers ELSE << >>
  /\ loans = << >>
  /\ now = 0
  /\ reqs = [s \in Slots |-> Idle]
  /\ mode = "cap"

(* SQLite variant, requests of concurrent clients interleaved at every     *)
(* store call                                                              *)
Spec == Init /\ [][NextRace]_vars

(* SQLite variant, the borrows of one member on two books interleaved *)
SpecBooks == InitBooks /\ [][NextBooks]_vars

(* SQLite variant, the edits of a book interleaved with its loans *)
SpecEdit == InitEdit /\ [][NextEdit]_vars

(* SQLite variant, deletions interleaved with borrows *)
SpecRemoval == InitRemoval /\ [][NextRemoval]_vars

(* Either variant, one request at a time, store calls failing *)
SpecFailure == InitFailure /\ [][NextFailure]_vars

(* Mongoose variant, requests of concurrent clients interleaved *)
SpecMongo == InitMongo /\ [][NextMongo]_vars

(* Either variant, requests served one at a time *)
SpecSerial == InitSerial /\ [][NextBoth]_vars

(* Either variant, one request at a time on a single loan, dates and fines *)
(* ranging widely                                                          *)
SpecFine == InitFine /\ [][NextFine]_vars

(* Either variant, one request at a time, books and members deleted *)
SpecDelete == InitDelete /\ [][NextDelete]_vars

(* Either variant, one request at a time, a member's max_books lowered *)
SpecCap == InitCap /\ [][NextCap]_vars

----------------------------------------------------------------------------
(* Claims *)

AnsweredBorrow(s) == reqs[s].pc = "done" /\ reqs[s].op = "borrow"
AnsweredReturn(s) == reqs[s].pc = "done" /\ reqs[s].op = "return"

(* C1: every book has 0 <= available_copies <= total_copies in every      *)
(* reachable state, whatever the interleaving of the requests.            *)
C1_AvailableWithinTotal ==
  \A b \in 1..Len(books) :
    books[b].exists =>
      /\ 0 <= books[b].available_copies
      /\ books[b].available_copies <= books[b].total_copies

(* C2: of two borrow requests for the same book processed concurrently,   *)
(* each of which found exactly one copy available and neither of which    *)
(* was refused for its member's sake, exactly one is answered 201 and the *)
(* other 400 "Book is not available".                                     *)
MemberErrors == {"member_not_found", "member_not_active", "limit_reached"}

C2_LastCopyOneWinner ==
  \A s, t \in Slots :
    ( /\ s # t
      /\ AnsweredBorrow(s) /\ AnsweredBorrow(t)
      /\ reqs[s].book_id = reqs[t].book_id
      /\ reqs[s].book.available_copies = 1
      /\ reqs[t].book.available_copies = 1
      /\ reqs[s].error \notin MemberErrors
      /\ reqs[t].error \notin MemberErrors )
    => \/ reqs[s].res = 201 /\ reqs[t].error = "book_not_available"
       \/ reqs[t].res = 201 /\ reqs[s].error = "book_not_available"

(* C3: starting from the seeded data, every book's available_copies is    *)
(* its total_copies minus the number of its loans with status 'borrowed'. *)
C3_AvailableMatchesLoans ==
  \A b \in 1..Len(books) :
    books[b].exists =>
      books[b].available_copies = books[b].total_copies - BookActiveCount(b)

(* C4: no member ever has more loans with status 'borrowed' than the      *)
(* member's max_books.                                                    *)
C4_ActiveLoansWithinCap ==
  \A m \in 1..Len(members) :
    members[m].exists => active_borrowings(m) <= members[m].max_books

(* What a request found when it arrived (requests served one at a time) *)
PreBookExists(r) ==
  r.book_id \in 1..Len(r.pre.books) /\ r.pre.books[r.book_id].exists
PreMemberExists(r) ==
  r.member_id \in 1..Len(r.pre.members) /\ r.pre.members[r.member_id].exists
PreLoanExists(r) == r.id \in 1..Len(r.pre.loans)
PreActiveLoans(r) ==
  Cardinality({i \in 1..Len(r.pre.loans) :
                 /\ r.pre.loans[i].member_id = r.member_id
                 /\ r.pre.loans[i].status = "borrowed"})
PreNoCopy(r) == r.pre.books[r.book_id].available_copies <= 0
PreMemberRefused(r) ==
  \/ r.pre.members[r.member_id].membership_status # "active"
  \/ AtLimit(PreActiveLoans(r), r.pre.members[r.member_id].max_books)

(* C5: with requests served one at a time, a Return on a loan stored as   *)
(* 'borrowed' is answered 200, marks the loan returned and leaves the     *)
(* book's available_copies exactly 1 above its value before the call; a   *)
(* second Return on the same loan right after it is answered 400 'Book    *)
(* has already been returned', changes nothing, and available_copies is   *)
(* still exactly 1 above its value before the first call.                 *)
C5_ReturnTwice ==
  \A s \in Slots :
    AnsweredReturn(s) =>
      LET r == reqs[s]
      IN  /\ (PreLoanExists(r) /\ r.pre.loans[r.id].status = "borrowed") =>
               /\ r.res = 200
               /\ loans[r.id].status = "returned"
               /\ BookExists(loans[r.id].book_id) =>
                    books[loans[r.id].book_id].available_copies = r.before + 1
          /\ r.again =>
               /\ r.res = 400 /\ r.error = "already_returned"
               /\ store = <<r.pre.books, r.pre.members, r.pre.loans>>
               /\ loans[r.id].status = "returned"
               /\ BookExists(loans[r.id].book_id) =>
                    books[loans[r.id].book_id].available_copies = r.before + 1

(* C5 happens: a second Return has just been refused and the book has one *)
(* more available copy than before the first.                             *)
C5_Witness ==
  \E s \in Slots :
    /\ AnsweredReturn(s) /\ reqs[s].again
    /\ reqs[s].res = 400 /\ reqs[s].error = "already_returned"
    /\ BookExists(loans[reqs[s].id].book_id)
    /\ books[loans[reqs[s].id].book_id].available_copies = reqs[s].before + 1

(* C6: a successful Return whose body supplies fine_amount stores that    *)
(* value as the loan's fine_amount and reports it in the response, for    *)
(* every supplied value, 0 on a late return included.                     *)
C6_SuppliedFineStored ==
  \A s \in Slots :
    ( /\ AnsweredReturn(s) /\ reqs[s].res = 200
      /\ reqs[s].fine_amount.kind # "absent" )
    => /\ loans[reqs[s].id].fine_amount = reqs[s].fine_amount.val
       /\ reqs[s].calculatedFine = reqs[s].fine_amount.val

(* C7: a successful Return whose body has no fine_amount stores, and      *)
(* reports, FinePerDay times the whole days from due_date to return_date, *)
(* rounded down and never below 0.                                        *)
C7_ComputedFine ==
  \A s \in Slots :
    ( /\ AnsweredReturn(s) /\ reqs[s].res = 200
      /\ reqs[s].fine_amount.kind = "absent" )
    => LET late == loans[reqs[s].id].return_date - loans[reqs[s].id].due_date
           daysOverdue == IF late > 0 THEN late \div TicksPerDay ELSE 0
       IN  /\ loans[reqs[s].id].fine_amount = daysOverdue * FinePerDay
           /\ reqs[s].calculatedFine = daysOverdue * FinePerDay

(* C7 happens: a loan returned exactly 3 days late with no fine_amount    *)
(* in the body carries a fine of 1.50.                                    *)
C7_Witness ==
  \E s \in Slots :
    /\ AnsweredReturn(s) /\ reqs[s].res = 200
    /\ reqs[s].fine_amount.kind = "absent"
    /\ loans[reqs[s].id].return_date - loans[reqs[s].id].due_date
         = 3 * TicksPerDay
    /\ loans[reqs[s].id].fine_amount = 150

(* C8: with requests served one at a time, a Borrow answered 201 has      *)
(* added exactly one loan, with status 'borrowed', for its book and       *)
(* member, has lowered that book's available_copies by 1, and has left    *)
(* every other book, every member and every earlier loan as it was.       *)
C8_BorrowEffect ==
  \A s \in Slots :
    (AnsweredBorrow(s) /\ reqs[s].res = 201) =>
      LET r == reqs[s]
      IN  /\ loans = Append(r.pre.loans,
                            Loan(r.book_id, r.member_id, r.date, "borrowed"))
          /\ books = [r.pre.books EXCEPT ![r.book_id].available_copies = @ - 1]
          /\ members = r.pre.members

(* C9: with requests served one at a time, a Borrow answered 404 or 400   *)
(* leaves books, members and loans exactly as it found them.              *)
C9_FailedBorrowChangesNothing ==
  \A s \in Slots :
    (AnsweredBorrow(s) /\ reqs[s].res \in {400, 404}) =>
      store = <<reqs[s].pre.books, reqs[s].pre.members, reqs[s].pre.loans>>

(* C9 happens: a Borrow has been refused because the member's limit is    *)
(* reached, with a loan on record.                                        *)
C9_Witness ==
  \E s \in Slots :
    /\ AnsweredBorrow(s) /\ reqs[s].res = 400
    /\ reqs[s].error = "limit_reached"
    /\ Len(loans) > 0

(* C10 as stated: a Borrow is answered 404 whenever the book or the       *)
(* member does not exist, whatever the state of the other, and 400 only   *)
(* when both exist and the book has no available copy, the member is not  *)
(* active, or the member's active loans have reached max_books.           *)
C10_NotFoundWhateverTheOther ==
  \A s \in Slots :
    AnsweredBorrow(s) =>
      LET r == reqs[s]
      IN  /\ (~PreBookExists(r) \/ ~PreMemberExists(r)) => r.res = 404
          /\ r.res = 400 =>
               /\ PreBookExists(r) /\ PreMemberExists(r)
               /\ PreNoCopy(r) \/ PreMemberRefused(r)

(* C10 amended: a Borrow is answered 404 exactly when the book does not   *)
(* exist, or the book exists with an available copy and the member does   *)
(* not exist; it is answered 400 exactly when the book exists and has no  *)
(* available copy (whether or not the member exists), or the book has an  *)
(* available copy and the member exists but is not active or has reached  *)
(* max_books.                                                             *)
C10_ChecksInOrder ==
  \A s \in Slots :
    AnsweredBorrow(s) =>
      LET r == reqs[s]
      IN  /\ r.res = 404 <=>
               \/ ~PreBookExists(r)
               \/ ~PreNoCopy(r) /\ ~PreMemberExists(r)
          /\ r.res = 400 <=>
               /\ PreBookExists(r)
               /\ \/ PreNoCopy(r)
                  \/ PreMemberExists(r) /\ PreMemberRefused(r)
          /\ r.res = 404 =>
               r.error = IF PreBookExists(r) THEN "member_not_found"
                         ELSE "book_not_found"

(* C10 happens: a Borrow naming a missing member and a book with no       *)
(* available copy has been answered 400 'Book is not available'.          *)
C10_Witness ==
  \E s \in Slots :
    /\ AnsweredBorrow(s)
    /\ PreBookExists(reqs[s]) /\ PreNoCopy(reqs[s])
    /\ ~PreMemberExists(reqs[s])
    /\ reqs[s].res = 400 /\ reqs[s].error = "book_not_available"

(* C11: once a loan's status is 'returned', no step of any Return or      *)
(* Renew request, however interleaved, changes its status, return_date,   *)
(* fine_amount or due_date.                                               *)
C11_ReturnedIsTerminal ==
  [][\A i \in 1..Len(loans) :
       loans[i].status = "returned" =>
         /\ loans'[i].status = loans[i].status
         /\ loans'[i].return_date = loans[i].return_date
         /\ loans'[i].fine_amount = loans[i].fine_amount
         /\ loans'[i].due_date = loans[i].due_date]_vars

AnsweredRenew(s) == reqs[s].pc = "done" /\ reqs[s].op = "renew"

(* C12: with requests served one at a time, a Renew on a loan stored as   *)
(* 'returned' is answered 400 and changes nothing; a Renew on a loan      *)
(* stored as 'borrowed' is answered 200 and changes only that loan's      *)
(* due_date: its status, fine_amount and return_date, every other loan,   *)
(* every book and every member stay as they were, whatever the new due    *)
(* date, one already in the past included.                                *)
C12_RenewChangesOnlyDueDate ==
  \A s \in Slots :
    (AnsweredRenew(s) /\ PreLoanExists(reqs[s])) =>
      LET r == reqs[s]
      IN  /\ r.pre.loans[r.id].status = "returned" =>
               /\ r.res = 400
               /\ store = <<r.pre.books, r.pre.members, r.pre.loans>>
          /\ r.pre.loans[r.id].status = "borrowed" =>
               /\ r.res = 200
               /\ loans = [r.pre.loans EXCEPT
                             ![r.id].due_date = loans[r.id].due_date]
               /\ books = r.pre.books
               /\ members = r.pre.members

(* C13: with requests served one at a time, a Return on a loan that a     *)
(* Borrow created and that has not been returned yet is answered 200,     *)
(* sets the loan's status to 'returned' and raises the available_copies   *)
(* of its book by 1, whether or not its due_date has passed.              *)
C13_UnreturnedLoanIsReturnable ==
  \A s \in Slots :
    ( /\ AnsweredReturn(s) /\ PreLoanExists(reqs[s])
      /\ reqs[s].pre.loans[reqs[s].id].status # "returned" )
    => LET r == reqs[s]
           b == r.pre.loans[r.id].book_id
       IN  /\ r.res = 200
           /\ loans[r.id].status = "returned"
           /\ BookExists(b) =>
                books[b].available_copies
                  = r.pre.books[b].available_copies + 1

(* C14: the stored status of every loan is 'borrowed' or 'returned', in   *)
(* every reachable state.                                                 *)
C14_TwoStatusValues ==
  \A i \in 1..Len(loans) : loans[i].status \in {"borrowed", "returned"}

AnsweredDeleteBook(s) == reqs[s].pc = "done" /\ reqs[s].op = "delete_book"
AnsweredDeleteMember(s) == reqs[s].pc = "done" /\ reqs[s].op = "delete_member"

(* The loans stored as 'borrowed' that named the book, or the member,     *)
(* when the request arrived                                               *)
PreBookLoans(r) ==
  {i \in 1..Len(r.pre.loans) : r.pre.loans[i].book_id = r.book_id}
PreMemberLoans(r) ==
  {i \in 1..Len(r.pre.loans) : r.pre.loans[i].member_id = r.member_id}
PreBorrowed(r, L) == {i \in L : r.pre.loans[i].status = "borrowed"}

(* C15: with requests served one at a time, deleting a book, or a member, *)
(* that at least one loan stored as 'borrowed' names is answered 400 and  *)
(* changes nothing; deleting an existing book, or member, that no such    *)
(* loan names (every loan naming it is returned) is answered 200 and      *)
(* removes the record and nothing else.                                   *)
C15_DeleteGuardedByLoans ==
  \A s \in Slots :
    /\ AnsweredDeleteBook(s) =>
         LET r == reqs[s]
         IN  /\ PreBorrowed(r, PreBookLoans(r)) # {} =>
                  /\ r.res = 400
                  /\ store = <<r.pre.books, r.pre.members, r.pre.loans>>
             /\ ( /\ PreBookExists(r)
                  /\ \A i \in PreBookLoans(r) :
                       r.pre.loans[i].status = "returned" ) =>
                  /\ r.res = 200
                  /\ books = [r.pre.books EXCEPT ![r.book_id].exists = FALSE]
                  /\ members = r.pre.members /\ loans = r.pre.loans
    /\ AnsweredDeleteMember(s) =>
         LET r == reqs[s]
         IN  /\ PreBorrowed(r, PreMemberLoans(r)) # {} =>
                  /\ r.res = 400
                  /\ store = <<r.pre.books, r.pre.members, r.pre.loans>>
             /\ ( /\ PreMemberExists(r)
                  /\ \A i \in PreMemberLoans(r) :
                       r.pre.loans[i].status = "returned" ) =>
                  /\ r.res = 200
                  /\ members = [r.pre.members EXCEPT
                                  ![r.member_id].exists = FALSE]
                  /\ books = r.pre.books /\ loans = r.pre.loans

(* C15 happens: a book that a returned loan names has just been deleted.  *)
C15_Witness ==
  \E s \in Slots :
    /\ AnsweredDeleteBook(s) /\ reqs[s].res = 200
    /\ PreBookLoans(reqs[s]) # {}
    /\ ~BookExists(reqs[s].book_id)

AnsweredUpdateBook(s) == reqs[s].pc = "done" /\ reqs[s].op = "update_book"

(* total_copies - available_copies of the book when the request arrived *)
PreBorrowedCount(r) ==
  r.pre.books[r.book_id].total_copies - r.pre.books[r.book_id].available_copies

(* C16: with requests served one at a time, an UpdateBook of an existing  *)
(* book with a new total below the book's borrowed count (total_copies -  *)
(* available_copies) is answered 400 and changes nothing; otherwise it is *)
(* answered 200, sets total_copies to the new total and available_copies  *)
(* to the new total minus the borrowed count, and changes nothing else,   *)
(* so the borrowed count is the same after as before.                     *)
C16_UpdateBookKeepsBorrowedCount ==
  \A s \in Slots :
    (AnsweredUpdateBook(s) /\ PreBookExists(reqs[s])) =>
      LET r == reqs[s]
          b == r.book_id
      IN  IF r.total_copies < PreBorrowedCount(r)
            THEN /\ r.res = 400
                 /\ store = <<r.pre.books, r.pre.members, r.pre.loans>>
            ELSE /\ r.res = 200
                 /\ books = [r.pre.books EXCEPT
                               ![b].total_copies = r.total_copies,
                               ![b].available_copies =
                                  r.total_copies - PreBorrowedCount(r)]
                 /\ books[b].total_copies - books[b].available_copies
                      = PreBorrowedCount(r)
                 /\ members = r.pre.members /\ loans = r.pre.loans

(* C16 happens: the total of a book with a copy on loan has been changed  *)
(* and its available_copies recomputed.                                   *)
C16_Witness ==
  \E s \in Slots :
    /\ AnsweredUpdateBook(s) /\ reqs[s].res = 200
    /\ PreBookExists(reqs[s]) /\ PreBorrowedCount(reqs[s]) > 0
    /\ reqs[s].total_copies # reqs[s].pre.books[reqs[s].book_id].total_copies
    /\ books[reqs[s].book_id].available_copies
         = reqs[s].total_copies - PreBorrowedCount(reqs[s])

AnsweredUpdateMember(s) == reqs[s].pc = "done" /\ reqs[s].op = "update_member"

(* C17: with requests served one at a time, an UpdateMember that sets     *)
(* max_books below the member's number of loans stored as 'borrowed' is   *)
(* answered 200, writes the new max_books and leaves every loan and every *)
(* book as it was; and a Borrow by an active member for a book with an    *)
(* available copy is answered 400 (limit reached), changing nothing, as   *)
(* long as that number is at least max_books, and 201 as soon as it is    *)
(* below max_books.                                                       *)
C17_LoweredCap ==
  \A s \in Slots :
    /\ ( /\ AnsweredUpdateMember(s) /\ PreMemberExists(reqs[s])
         /\ reqs[s].max_books # Null
         /\ reqs[s].max_books < PreActiveLoans(reqs[s]) )
       => /\ reqs[s].res = 200
          /\ members[reqs[s].member_id].max_books = reqs[s].max_books
          /\ loans = reqs[s].pre.loans
          /\ books = reqs[s].pre.books
    /\ ( /\ AnsweredBorrow(s)
         /\ PreBookExists(reqs[s]) /\ ~PreNoCopy(reqs[s])
         /\ PreMemberExists(reqs[s])
         /\ reqs[s].pre.members[reqs[s].member_id].membership_status = "active"
         /\ reqs[s].pre.members[reqs[s].member_id].max_books # Null )
       => IF PreActiveLoans(reqs[s])
               >= reqs[s].pre.members[reqs[s].member_id].max_books
            THEN /\ reqs[s].res = 400 /\ reqs[s].error = "limit_reached"
                 /\ store = <<reqs[s].pre.books, reqs[s].pre.members,
                              reqs[s].pre.loans>>
            ELSE reqs[s].res = 201

(* C17 happens: a member holding more 'borrowed' loans than max_books,    *)
(* so one whose max_books was lowered below them, has just been refused a *)
(* further Borrow.                                                        *)
C17_Witness ==
  \E s \in Slots :
    /\ AnsweredBorrow(s) /\ PreMemberExists(reqs[s])
    /\ reqs[s].res = 400 /\ reqs[s].error = "limit_reached"
    /\ PreActiveLoans(reqs[s])
         > reqs[s].pre.members[reqs[s].member_id].max_books
    /\ active_borrowings(reqs[s].member_id) = PreActiveLoans(reqs[s])

(* C18: with requests served one at a time, a Borrow whose due_date is    *)
(* earlier than the time at which it arrives is refused: it is not        *)
(* answered 201, and books, members and loans stay as they were.          *)
C18_PastDueDateRejected ==
  \A s \in Slots :
    (AnsweredBorrow(s) /\ reqs[s].date < reqs[s].pre.now) =>
      /\ reqs[s].res # 201
      /\ store = <<reqs[s].pre.books, reqs[s].pre.members, reqs[s].pre.loans>>

(* C19: every loan's fine_amount is at least 0 in every reachable state,  *)
(* whatever fine_amount a Return that passes the request validation       *)
(* supplies.                                                              *)
C19_FineNotNegative ==
  \A i \in 1..Len(loans) : loans[i].fine_amount >= 0

----------------------------------------------------------------------------
(* C20: every record with status 'borrowed' has no return_date and a       *)
(* fine_amount of 0, a return_date or a non-zero fine_amount is only on a  *)
(* record with status 'returned', and GET /overdue writes no record: every *)
(* step ends in such a state, and the step of a list request leaves the    *)
(* loan records as they were.                                              *)
C20_DateAndFineOnlyOnReturned ==
  [][/\ \A i \in 1..Len(loans') :
          /\ loans'[i].status = "borrowed"
                => /\ loans'[i].return_date = NoDate
                   /\ loans'[i].fine_amount = 0
          /\ (loans'[i].return_date # NoDate \/ loans'[i].fine_amount # 0)
                => loans'[i].status = "returned"
     /\ (\E s \in Slots : /\ reqs'[s] # reqs[s]
                           /\ reqs'[s].op = "list_overdue")
          => loans' = loans]_vars

----------------------------------------------------------------------------
(* C21: every member's max_books is an integer from 1 to 20, after any     *)
(* sequence of member creations and updates, an update whose body omits    *)
(* max_books included.                                                     *)
C21_MaxBooksInRange ==
  \A m \in 1..Len(members) :
    members[m].exists => members[m].max_books \in MinMaxBooks..MaxMaxBooks

----------------------------------------------------------------------------
AnsweredListOverdue(s) ==
  reqs[s].pc = "done" /\ reqs[s].op = "list_overdue" /\ reqs[s].res = 200

(* C22: GET /overdue answers exactly the loans with status 'borrowed' and  *)
(* a due_date before the time of the request, each with days_overdue the   *)
(* whole days since due_date, rounded down and never negative, and         *)
(* calculated_fine 0.50 for each of those days.                            *)
C22_ListOverdueExact ==
  \A s \in Slots :
    AnsweredListOverdue(s) =>
      LET r == reqs[s]
          WholeDaysSince(q, due_date) ==
            (q.pre.now - due_date) \div TicksPerDay
      IN  /\ r.booksWithFines =
               {[id |-> i,
                 days_overdue |-> WholeDaysSince(r, r.pre.loans[i].due_date),
                 calculated_fine |->
                   WholeDaysSince(r, r.pre.loans[i].due_date) * FinePerDay] :
                  i \in {j \in 1..Len(r.pre.loans) :
                           /\ r.pre.loans[j].status = "borrowed"
                           /\ r.pre.loans[j].due_date < r.pre.now}}
          /\ \A row \in r.booksWithFines : row.days_overdue >= 0

----------------------------------------------------------------------------
(* C23: of two returns of the same loan served together, their reads and   *)
(* writes interleaved, one is answered 200 and the other 400: never both   *)
(* 200, each adding a copy to the book.                                    *)
C23_OneReturnWins ==
  \A s, t \in Slots :
    /\ s # t
    /\ AnsweredReturn(s) /\ AnsweredReturn(t)
    /\ reqs[s].id = reqs[t].id
    /\ reqs[s].res = 200
    => reqs[t].res = 400

----------------------------------------------------------------------------
(* C24: when two borrows of one member for two different books are served  *)
(* together, the member one loan short of max_books, at most one of them   *)
(* is answered 201: after both answers the member's loans with status      *)
(* 'borrowed' are no more than max_books.                                  *)
C24_OneBorrowWithinCap ==
  \A s, t \in Slots :
    /\ s # t
    /\ AnsweredBorrow(s) /\ AnsweredBorrow(t)
    /\ reqs[s].member_id = reqs[t].member_id
    /\ reqs[s].book_id # reqs[t].book_id
    /\ MemberExists(reqs[s].member_id)
    => /\ ~(reqs[s].res = 201 /\ reqs[t].res = 201)
       /\ active_borrowings(reqs[s].member_id)
            <= members[reqs[s].member_id].max_books

----------------------------------------------------------------------------
(* C25: whichever single store call of a borrow fails, the request leaves  *)
(* either both the new loan record and the copy taken from the book, or    *)
(* neither: never a new record without the decrement, nor a decrement      *)
(* without a record.                                                       *)
C25_BorrowAllOrNothing ==
  \A s \in Slots :
    AnsweredBorrow(s) /\ PreBookExists(reqs[s]) =>
      LET r == reqs[s]
          b == r.book_id
      IN  \/ /\ Len(loans) = Len(r.pre.loans) + 1
             /\ books[b].available_copies
                  = r.pre.books[b].available_copies - 1
          \/ /\ loans = r.pre.loans
             /\ books = r.pre.books

----------------------------------------------------------------------------
(* C26: whichever single store call of a return of a 'borrowed' loan       *)
(* fails, the request leaves either the loan 'returned' and the book's     *)
(* available_copies one higher, or the loan and the book as they were; a   *)
(* return not answered 200 leaves them as they were.                       *)
C26_ReturnAllOrNothing ==
  \A s \in Slots :
    /\ AnsweredReturn(s) /\ PreLoanExists(reqs[s])
    /\ reqs[s].pre.loans[reqs[s].id].status = "borrowed"
    => LET r == reqs[s]
           b == r.pre.loans[r.id].book_id
       IN  /\ \/ /\ loans[r.id].status = "returned"
                 /\ books[b].available_copies
                      = r.pre.books[b].available_copies + 1
              \/ /\ loans = r.pre.loans
                 /\ books = r.pre.books
           /\ r.res # 200 => loans = r.pre.loans /\ books = r.pre.books

----------------------------------------------------------------------------
(* C27: when an UpdateBook is served together with a borrow or a return of *)
(* the same book and both have succeeded, the book's available_copies is   *)
(* its total_copies minus the number of its loans with status 'borrowed'.  *)
C27_EditKeepsCopiesInStep ==
  \A s, t \in Slots :
    /\ s # t
    /\ AnsweredUpdateBook(s) /\ reqs[s].res = 200
    /\ BookExists(reqs[s].book_id)
    /\ \/ /\ AnsweredBorrow(t) /\ reqs[t].res = 201
          /\ reqs[t].book_id = reqs[s].book_id
       \/ /\ AnsweredReturn(t) /\ reqs[t].res = 200
          /\ LoanExists(reqs[t].id)
          /\ loans[reqs[t].id].book_id = reqs[s].book_id
    => books[reqs[s].book_id].available_copies
         = books[reqs[s].book_id].total_copies
             - BookActiveCount(reqs[s].book_id)

----------------------------------------------------------------------------
(* C28: whatever the interleaving of book deletions, member deletions and  *)
(* borrows, every loan with status 'borrowed' names a book and a member    *)
(* that still exist.                                                       *)
C28_BorrowedLoanHasBookAndMember ==
  \A i \in 1..Len(loans) :
    loans[i].status = "borrowed" =>
      BookExists(loans[i].book_id) /\ MemberExists(loans[i].member_id)

----------------------------------------------------------------------------
(* C29: in the Mongoose variant, when two borrows of the same book served  *)
(* together are both answered 201 and the book had at least 2 available    *)
(* copies, its available_copies ends 2 below what it was: the decrement of *)
(* neither request is lost.                                                *)
C29_BothDecrementsKept ==
  \A s, t \in Slots :
    /\ variant = "mongo"
    /\ s < t
    /\ AnsweredBorrow(s) /\ reqs[s].res = 201
    /\ AnsweredBorrow(t) /\ reqs[t].res = 201
    /\ reqs[s].book_id = reqs[t].book_id
    /\ BookExists(reqs[s].book_id)
    => LET before == IF reqs[s].book.available_copies
                          >= reqs[t].book.available_copies
                       THEN reqs[s].book.available_copies
                       ELSE reqs[t].book.available_copies
       IN  before >= 2 =>
             books[reqs[s].book_id].available_copies = before - 2

----------------------------------------------------------------------------
(* C30: in the Mongoose variant every loan not yet returned counts as      *)
(* active, one saved after its due_date included: no member holds more     *)
(* unreturned loans than max_books, and the member of an unreturned loan   *)
(* has not been deleted.                                                   *)
C30_UnreturnedLoansCount ==
  variant = "mongo" =>
    /\ \A m \in 1..Len(members) :
         members[m].exists =>
           Cardinality({i \in 1..Len(loans) :
                          /\ loans[i].member_id = m
                          /\ loans[i].status # "returned"})
             <= members[m].max_books
    /\ \A i \in 1..Len(loans) :
         loans[i].status # "returned" => MemberExists(loans[i].member_id)

====
